---- MODULE Spec2Model ----
(***************************************************************************)
(* Email Agent Supervisor (src/supervisor_demo.py).                        *)
(*                                                                         *)
(* A text is a sequence of characters, each character a one-character      *)
(* string, so that lower-casing, substring containment, the regular        *)
(* expressions and the lexicographic sort are computed on the characters   *)
(* as the Python code computes them.  Risk figures are kept in exact       *)
(* tenths (1.2 is 12): every term of the risk sum is an integer multiple   *)
(* of 0.1, and the only sums that reach the threshold 10 exactly are sums  *)
(* of whole numbers, which binary floating point represents exactly.  The  *)
(* texts are over the characters of CodePointTable.                        *)
(***************************************************************************)
EXTENDS Integers, Sequences, FiniteSets, TLC

VARIABLES
  globals,    \* the module-level dictionaries (lines 13-70)
  email,      \* the Email decide_action was called on
  frame,      \* the local variables of the call when it returned
  decision,   \* the dict the call returned
  pc          \* "idle" between calls, "returned" while the caller holds the dict

vars == <<globals, email, frame, decision, pc>>

-----------------------------------------------------------------------------
(* Characters *)

\* the characters of the texts with their Unicode code points: Python compares
\* and sorts str by code point
CodePointTable ==
  {<<"\n", 10>>, <<" ", 32>>, <<"!", 33>>, <<"\"", 34>>, <<"#", 35>>, <<"$", 36>>,
   <<"%", 37>>, <<"&", 38>>, <<"'", 39>>, <<"(", 40>>, <<")", 41>>, <<"*", 42>>,
   <<"+", 43>>, <<",", 44>>, <<"-", 45>>, <<".", 46>>, <<"/", 47>>, <<"0", 48>>,
   <<"1", 49>>, <<"2", 50>>, <<"3", 51>>, <<"4", 52>>, <<"5", 53>>, <<"6", 54>>,
   <<"7", 55>>, <<"8", 56>>, <<"9", 57>>, <<":", 58>>, <<";", 59>>, <<"<", 60>>,
   <<"=", 61>>, <<">", 62>>, <<"?", 63>>, <<"@", 64>>, <<"A", 65>>, <<"B", 66>>,
   <<"C", 67>>, <<"D", 68>>, <<"E", 69>>, <<"F", 70>>, <<"G", 71>>, <<"H", 72>>,
   <<"I", 73>>, <<"J", 74>>, <<"K", 75>>, <<"L", 76>>, <<"M", 77>>, <<"N", 78>>,
   <<"O", 79>>, <<"P", 80>>, <<"Q", 81>>, <<"R", 82>>, <<"S", 83>>, <<"T", 84>>,
   <<"U", 85>>, <<"V", 86>>, <<"W", 87>>, <<"X", 88>>, <<"Y", 89>>, <<"Z", 90>>,
   <<"[", 91>>, <<"\\", 92>>, <<"]", 93>>, <<"^", 94>>, <<"_", 95>>, <<"a", 97>>,
   <<"b", 98>>, <<"c", 99>>, <<"d", 100>>, <<"e", 101>>, <<"f", 102>>, <<"g", 103>>,
   <<"h", 104>>, <<"i", 105>>, <<"j", 106>>, <<"k", 107>>, <<"l", 108>>, <<"m", 109>>,
   <<"n", 110>>, <<"o", 111>>, <<"p", 112>>, <<"q", 113>>, <<"r", 114>>, <<"s", 115>>,
   <<"t", 116>>, <<"u", 117>>, <<"v", 118>>, <<"w", 119>>, <<"x", 120>>, <<"y", 121>>,
   <<"z", 122>>, <<"{", 123>>, <<"|", 124>>, <<"}", 125>>, <<"~", 126>>, <<"Í", 205>>,
   <<"Ñ", 209>>, <<"Ó", 211>>, <<"í", 237>>, <<"ñ", 241>>, <<"ó", 243>>, <<"€", 8364>>}

CodePoint ==
  [c \in {p[1] : p \in CodePointTable} |->
     (CHOOSE p \in CodePointTable : p[1] = c)[2]]

\* str.lower() on the upper-case letters among them
UpperToLowerTable ==
  {<<"A", "a">>, <<"B", "b">>, <<"C", "c">>, <<"D", "d">>, <<"E", "e">>, <<"F", "f">>,
   <<"G", "g">>, <<"H", "h">>, <<"I", "i">>, <<"J", "j">>, <<"K", "k">>, <<"L", "l">>,
   <<"M", "m">>, <<"N", "n">>, <<"O", "o">>, <<"P", "p">>, <<"Q", "q">>, <<"R", "r">>,
   <<"S", "s">>, <<"T", "t">>, <<"U", "u">>, <<"V", "v">>, <<"W", "w">>, <<"X", "x">>,
   <<"Y", "y">>, <<"Z", "z">>, <<"Í", "í">>, <<"Ñ", "ñ">>, <<"Ó", "ó">>}

UpperToLower ==
  [c \in {p[1] : p \in UpperToLowerTable} |->
     (CHOOSE p \in UpperToLowerTable : p[1] = c)[2]]

LowerChar(c) == IF c \in DOMAIN UpperToLower THEN UpperToLower[c] ELSE c

\* str.lower()
Lower(s) == [i \in 1..Len(s) |-> LowerChar(s[i])]

Digits == {"0","1","2","3","4","5","6","7","8","9"}

AsciiLetters ==
  {p[1] : p \in {q \in CodePointTable :
                   \/ (q[2] >= 65 /\ q[2] <= 90)
                   \/ (q[2] >= 97 /\ q[2] <= 122)}}

\* regex \s
SpaceChars == {" ", "\n"}

\* regex \S
NonSpaceChars == DOMAIN CodePoint \ SpaceChars

\* regex \w (Unicode): letters, accented ones included, digits, underscore
WordChars == AsciiLetters \cup Digits \cup {"_", "Í", "Ñ", "Ó", "í", "ñ", "ó"}

\* regex [A-Za-z0-9.-]
HostChars == AsciiLetters \cup Digits \cup {".", "-"}

\* regex [\d.,]
AmountChars == Digits \cup {".", ","}

\* regex [\d\s().-]
PhoneChars == Digits \cup SpaceChars \cup {"(", ")", ".", "-"}

IsDigit(c) == c \in Digits

IsSpace(c) == c \in SpaceChars

IsWord(c) == c \in WordChars

\* regex \b between positions i-1 and i of t
WordBoundary(t, i) ==
  LET before == i > 1 /\ i - 1 <= Len(t) /\ IsWord(t[i - 1])
      after  == i >= 1 /\ i <= Len(t) /\ IsWord(t[i])
  IN  before # after

\* t[i:i+len(p)] == p
MatchesAt(t, i, p) ==
  /\ i >= 1
  /\ i + Len(p) - 1 <= Len(t)
  /\ \A j \in 1..Len(p) : t[i + j - 1] = p[j]

\* the str containment test: term in t
Contains(t, term) ==
  \E i \in 1..(Len(t) - Len(term) + 1) :
    \A j \in 1..Len(term) : t[i + j - 1] = term[j]

\* the last position of the maximal run of characters of class C that starts
\* at i (i - 1 when t[i] is not of the class): a greedy C*
RECURSIVE RunEnd(_, _, _)
RunEnd(C, t, i) ==
  IF i <= Len(t) /\ t[i] \in C THEN RunEnd(C, t, i + 1) ELSE i - 1

Range(s) == {s[i] : i \in 1..Len(s)}

Max(S) == CHOOSE x \in S : \A y \in S : y <= x

Min(S) == CHOOSE x \in S : \A y \in S : x <= y

-----------------------------------------------------------------------------
(* Term dictionaries, lines 13-70 *)

FREE_DOMAINS ==
  {<<"g","m","a","i","l",".","c","o","m">>,
   <<"y","a","h","o","o",".","c","o","m">>,
   <<"h","o","t","m","a","i","l",".","c","o","m">>,
   <<"o","u","t","l","o","o","k",".","c","o","m">>,
   <<"l","i","v","e",".","c","o","m">>,
   <<"i","c","l","o","u","d",".","c","o","m">>,
   <<"p","r","o","t","o","n",".","m","e">>,
   <<"p","r","o","t","o","n","m","a","i","l",".","c","o","m">>}

ROLE_TERMS ==
  <<
    <<"c","e","o">>,
    <<"c","f","o">>,
    <<"c","o","o">>,
    <<"c","t","o">>,
    <<"c","h","a","i","r","m","a","n">>,
    <<"b","o","a","r","d">>,
    <<"d","i","r","e","c","t","o","r">>,
    <<"v","p">>,
    <<"v","i","c","e"," ","p","r","e","s","i","d","e","n","t">>,
    <<"g","e","n","e","r","a","l"," ","c","o","u","n","s","e","l">>,
    <<"l","e","g","a","l"," ","c","o","u","n","s","e","l">>,
    <<"h","e","a","d"," ","o","f">>,
    <<"f","o","u","n","d","e","r">>,
    <<"o","w","n","e","r">>,
    <<"p","r","e","s","i","d","e","n","t">>,
    <<"d","i","r","e","c","c","i","ó","n">>,
    <<"d","i","r","e","c","t","o","r">>,
    <<"c","o","n","s","e","j","o">>,
    <<"p","r","e","s","i","d","e","n","t","e">>,
    <<"p","r","o","p","i","e","t","a","r","i","o">>,
    <<"f","u","n","d","a","d","o","r">>,
    <<"a","s","e","s","o","r","í","a"," ","j","u","r","í","d","i","c","a">>
  >>

URGENCY_TERMS ==
  <<
    <<"u","r","g","e","n","t">>,
    <<"a","s","a","p">>,
    <<"i","m","m","e","d","i","a","t","e","l","y">>,
    <<"t","o","d","a","y">>,
    <<"r","i","g","h","t"," ","a","w","a","y">>,
    <<"t","i","m","e","-","s","e","n","s","i","t","i","v","e">>,
    <<"c","o","n","f","i","d","e","n","t","i","a","l">>,
    <<"u","r","g","e","n","t","e">>,
    <<"i","n","m","e","d","i","a","t","o">>,
    <<"h","o","y">>,
    <<"c","o","n","f","i","d","e","n","c","i","a","l">>,
    <<"r","e","s","e","r","v","a","d","o">>
  >>

SECURITY_TERMS ==
  <<
    <<"p","a","s","s","w","o","r","d">>,
    <<"r","e","s","e","t">>,
    <<"2","f","a">>,
    <<"a","u","t","h","e","n","t","i","c","a","t","i","o","n">>,
    <<"l","o","g","i","n">>,
    <<"b","r","e","a","c","h">>,
    <<"h","a","c","k">>,
    <<"p","h","i","s","h","i","n","g">>,
    <<"c","o","n","t","r","a","s","e","ñ","a">>,
    <<"a","c","c","e","s","o">>,
    <<"i","n","t","r","u","s","i","ó","n">>,
    <<"h","a","c","k","e","o">>,
    <<"s","u","p","l","a","n","t","a","c","i","ó","n">>,
    <<"p","h","i","s","h","i","n","g">>,
    <<"w","i","r","e"," ","t","r","a","n","s","f","e","r">>,
    <<"b","a","n","k"," ","d","e","t","a","i","l","s">>,
    <<"c","h","a","n","g","e"," ","p","a","y","m","e","n","t">>,
    <<"i","n","v","o","i","c","e"," ","c","h","a","n","g","e">>,
    <<"t","r","a","n","s","f","e","r","e","n","c","i","a">>,
    <<"c","a","m","b","i","a","r"," ","p","a","g","o">>,
    <<"c","a","m","b","i","o"," ","d","e"," ","c","u","e","n","t","a">>,
    <<"d","a","t","o","s"," ","b","a","n","c","a","r","i","o","s">>
  >>

M_AND_A_TERMS ==
  <<
    <<"a","c","q","u","i","r","e">>,
    <<"a","c","q","u","i","s","i","t","i","o","n">>,
    <<"b","u","y"," ","y","o","u","r"," ","c","o","m","p","a","n","y">>,
    <<"p","u","r","c","h","a","s","e"," ","y","o","u","r"," ","c","o","m","p","a","n","y">>,
    <<"m","e","r","g","e","r">>,
    <<"m","&","a">>,
    <<"i","n","v","e","s","t","m","e","n","t"," ","p","r","o","p","o","s","a","l">>,
    <<"v","a","l","u","a","t","i","o","n">>,
    <<"t","e","r","m"," ","s","h","e","e","t">>,
    <<"d","u","e"," ","d","i","l","i","g","e","n","c","e">>,
    <<"e","q","u","i","t","y">>,
    <<"s","t","a","k","e">>,
    <<"a","d","q","u","i","r","i","r">>,
    <<"c","o","m","p","r","a"," ","d","e"," ","l","a"," ","e","m","p","r","e","s","a">>,
    <<"c","o","m","p","r","a","r"," ","l","a"," ","c","o","m","p","a","ñ","í","a">>,
    <<"f","u","s","i","ó","n">>,
    <<"a","d","q","u","i","s","i","c","i","ó","n">>,
    <<"o","f","e","r","t","a"," ","d","e"," ","c","o","m","p","r","a">>,
    <<"v","a","l","o","r","a","c","i","ó","n">>,
    <<"p","a","r","t","i","c","i","p","a","c","i","ó","n">>,
    <<"i","n","v","e","r","s","i","ó","n">>
  >>

LEGAL_TERMS ==
  <<
    <<"c","o","n","t","r","a","c","t">>,
    <<"a","g","r","e","e","m","e","n","t">>,
    <<"n","d","a">>,
    <<"g","d","p","r">>,
    <<"c","o","m","p","l","i","a","n","c","e">>,
    <<"l","a","w","s","u","i","t">>,
    <<"l","e","g","a","l"," ","n","o","t","i","c","e">>,
    <<"c","o","n","t","r","a","t","o">>,
    <<"a","c","u","e","r","d","o">>,
    <<"n","d","a">>,
    <<"r","g","p","d">>,
    <<"c","u","m","p","l","i","m","i","e","n","t","o">>,
    <<"d","e","m","a","n","d","a">>,
    <<"n","o","t","i","f","i","c","a","c","i","ó","n"," ","l","e","g","a","l">>
  >>

SALES_TERMS ==
  <<
    <<"p","r","i","c","i","n","g">>,
    <<"q","u","o","t","e">>,
    <<"p","r","o","p","o","s","a","l">>,
    <<"d","e","m","o">>,
    <<"p","a","r","t","n","e","r","s","h","i","p">>,
    <<"r","e","s","e","l","l","e","r">>,
    <<"p","r","e","c","i","o">>,
    <<"p","r","e","s","u","p","u","e","s","t","o">>,
    <<"p","r","o","p","u","e","s","t","a">>,
    <<"d","e","m","o","s","t","r","a","c","i","ó","n">>,
    <<"c","o","l","a","b","o","r","a","c","i","ó","n">>
  >>

SUPPORT_TERMS ==
  <<
    <<"h","e","l","p">>,
    <<"i","s","s","u","e">>,
    <<"b","u","g">>,
    <<"p","r","o","b","l","e","m">>,
    <<"d","o","e","s","n","'","t"," ","w","o","r","k">>,
    <<"e","r","r","o","r">>,
    <<"a","y","u","d","a">>,
    <<"i","n","c","i","d","e","n","c","i","a">>,
    <<"f","a","l","l","o">>,
    <<"n","o"," ","f","u","n","c","i","o","n","a">>,
    <<"p","r","o","b","l","e","m","a">>
  >>

Intents == <<"M_AND_A", "LEGAL", "SECURITY", "SALES", "SUPPORT">>

INTENT_RULES ==
  [M_AND_A  |-> [weight |-> 5, terms |-> M_AND_A_TERMS],
   LEGAL    |-> [weight |-> 4, terms |-> LEGAL_TERMS],
   SECURITY |-> [weight |-> 5, terms |-> SECURITY_TERMS],
   SALES    |-> [weight |-> 2, terms |-> SALES_TERMS],
   SUPPORT  |-> [weight |-> 1, terms |-> SUPPORT_TERMS]]

\* the module namespace once the file is imported
ModuleGlobals ==
  [FREE_DOMAINS   |-> FREE_DOMAINS,
   ROLE_TERMS     |-> ROLE_TERMS,
   URGENCY_TERMS  |-> URGENCY_TERMS,
   SECURITY_TERMS |-> SECURITY_TERMS,
   INTENT_RULES   |-> INTENT_RULES]

-----------------------------------------------------------------------------
(* Pattern extractors, lines 73-107 *)

\* a regex match that ends at position end with value val; end = 0: no match
NoMatch == [end |-> 0, val |-> <<>>]

\* re.findall: scan left to right, take the match at the leftmost position
\* that has one, resume right after it; m[i] is the match starting at i
RECURSIVE FindAllFrom(_, _, _)
FindAllFrom(m, n, i) ==
  IF i > n THEN {}
  ELSE IF m[i].end = 0 THEN FindAllFrom(m, n, i + 1)
  ELSE {m[i].val} \cup FindAllFrom(m, n, m[i].end + 1)

\* the dots at which \.[A-Za-z]{2,} can follow [A-Za-z0-9.-]+ after the
\* "@" at position a
DomainDots(s, a) ==
  LET e == RunEnd(HostChars, s, a + 1)
  IN  {d \in (a + 2)..(e - 2) :
         s[d] = "." /\ s[d + 1] \in AsciiLetters /\ s[d + 2] \in AsciiLetters}

\* group 1 of @([A-Za-z0-9.-]+\.[A-Za-z]{2,}) matched at the "@" at a: the
\* greedy + gives back characters until the last dot that two letters follow
DomainGroup(s, a) ==
  LET d == Max(DomainDots(s, a))
  IN  SubSeq(s, a + 1, RunEnd(AsciiLetters, s, d + 1))

\* extract_email_domain: re.search takes the leftmost match; None is ok = FALSE
extract_email_domain(sender) ==
  LET ats == {a \in 1..Len(sender) :
                sender[a] = "@" /\ DomainDots(sender, a) # {}}
  IN  IF ats = {} THEN [ok |-> FALSE, group |-> <<>>]
      ELSE [ok |-> TRUE, group |-> Lower(DomainGroup(sender, Min(ats)))]

\* contains_any, lines 78-80
contains_any(text, terms) ==
  LET t == Lower(text)
  IN  \E k \in 1..Len(terms) : Contains(t, terms[k])

\* count_any, lines 83-85: one per list entry found in the text
count_any(text, terms) ==
  LET t == Lower(text)
  IN  Cardinality({k \in 1..Len(terms) : Contains(t, terms[k])})

\* patterns 1 and 2 of find_money at position i: sym \s? \d [\d.,]* \b
SymbolAmountAt(t, i, sym) ==
  IF t[i] # sym THEN NoMatch
  ELSE
    LET n  == Len(t)
        d0 == IF i + 1 <= n /\ IsDigit(t[i + 1]) THEN i + 1
              ELSE IF i + 2 <= n /\ IsSpace(t[i + 1]) /\ IsDigit(t[i + 2])
                   THEN i + 2 ELSE 0
        r  == RunEnd(AmountChars, t, d0 + 1)
        E  == {e \in d0..r : WordBoundary(t, e + 1)}
    IN  IF d0 = 0 \/ E = {} THEN NoMatch
        ELSE [end |-> Max(E), val |-> SubSeq(t, i, Max(E))]

\* the alternation (m|million|millones|b|billion|mil), in its order
MagnitudeWords ==
  << <<"m">>,
     <<"m","i","l","l","i","o","n">>,
     <<"m","i","l","l","o","n","e","s">>,
     <<"b">>,
     <<"b","i","l","l","i","o","n">>,
     <<"m","i","l">> >>

\* pattern 3 of find_money at position i:
\*   \b \d [\d.,]* \s? (m|million|millones|b|billion|mil) \b   (IGNORECASE)
\* c = <<e, w, k>>: the amount ends at e, w whitespace characters follow,
\* then alternative k.  The backtracking order prefers the longest amount,
\* then the whitespace taken, then the earliest alternative.  findall
\* returns the group, not the whole match.
MagnitudeAt(t, i) ==
  IF ~(WordBoundary(t, i) /\ IsDigit(t[i])) THEN NoMatch
  ELSE
    LET lt == Lower(t)
        r  == RunEnd(AmountChars, t, i + 1)
        Ok(e, w, k) ==
          /\ w = 1 => (e + 1 <= Len(t) /\ IsSpace(t[e + 1]))
          /\ MatchesAt(lt, e + w + 1, MagnitudeWords[k])
          /\ WordBoundary(t, e + w + 1 + Len(MagnitudeWords[k]))
        C  == {c \in (i..r) \X {0, 1} \X (1..Len(MagnitudeWords)) :
                 Ok(c[1], c[2], c[3])}
        Before(c, d) ==
          \/ c[1] > d[1]
          \/ c[1] = d[1] /\ c[2] > d[2]
          \/ c[1] = d[1] /\ c[2] = d[2] /\ c[3] <= d[3]
        b  == CHOOSE c \in C : \A d \in C : Before(c, d)
        s  == b[1] + b[2] + 1
        f  == b[1] + b[2] + Len(MagnitudeWords[b[3]])
    IN  IF C = {} THEN NoMatch
        ELSE [end |-> f, val |-> SubSeq(t, s, f)]

\* patterns 4 and 5 of find_money at position i: \b \d{2,} \s? sym \b
AmountSymbolAt(t, i, sym) ==
  IF ~(WordBoundary(t, i) /\ IsDigit(t[i])) THEN NoMatch
  ELSE
    LET r == RunEnd(Digits, t, i)
        Ok(e, w) ==
          /\ w = 1 => (e + 1 <= Len(t) /\ IsSpace(t[e + 1]))
          /\ e + w + 1 <= Len(t)
          /\ t[e + w + 1] = sym
          /\ WordBoundary(t, e + w + 2)
        C == {c \in ((i + 1)..r) \X {0, 1} : Ok(c[1], c[2])}
        Before(c, d) == c[1] > d[1] \/ (c[1] = d[1] /\ c[2] >= d[2])
        b == CHOOSE c \in C : \A d \in C : Before(c, d)
    IN  IF C = {} THEN NoMatch
        ELSE [end |-> b[1] + b[2] + 1, val |-> SubSeq(t, i, b[1] + b[2] + 1)]

\* str(x).strip() is not empty
StripNonEmpty(x) == \E i \in 1..Len(x) : ~IsSpace(x[i])

\* find_money, lines 88-99
find_money(text) ==
  LET n  == Len(text)
      P  == 1..n
      found ==
        FindAllFrom([i \in P |-> SymbolAmountAt(text, i, "€")], n, 1)
        \cup FindAllFrom([i \in P |-> SymbolAmountAt(text, i, "$")], n, 1)
        \cup FindAllFrom([i \in P |-> MagnitudeAt(text, i)], n, 1)
        \cup FindAllFrom([i \in P |-> AmountSymbolAt(text, i, "€")], n, 1)
        \cup FindAllFrom([i \in P |-> AmountSymbolAt(text, i, "$")], n, 1)
  IN  {x \in found : StripNonEmpty(x)}

\* the prefixes of https?://\S+|www\.\S+, in the order the regex tries them
UrlPrefixes ==
  << <<"h","t","t","p","s",":","/","/">>,
     <<"h","t","t","p",":","/","/">>,
     <<"w","w","w",".">> >>

\* https?://\S+|www\.\S+ at position i (IGNORECASE)
UrlAt(t, i) ==
  LET lt == Lower(t)
      K  == {k \in 1..Len(UrlPrefixes) :
               /\ MatchesAt(lt, i, UrlPrefixes[k])
               /\ RunEnd(NonSpaceChars, t, i + Len(UrlPrefixes[k]))
                    >= i + Len(UrlPrefixes[k])}
      e  == RunEnd(NonSpaceChars, t, i + Len(UrlPrefixes[Min(K)]))
  IN  IF K = {} THEN NoMatch ELSE [end |-> e, val |-> SubSeq(t, i, e)]

\* find_urls, lines 102-103
find_urls(text) ==
  FindAllFrom([i \in 1..Len(text) |-> UrlAt(text, i)], Len(text), 1)

\* \+?\d[\d\s().-]{7,}\d at position i: the greedy {7,} gives back
\* characters until the last digit of the run
PhoneAt(t, i) ==
  LET s0 == IF t[i] = "+" THEN i + 1 ELSE i
      r  == RunEnd(PhoneChars, t, s0 + 1)
      K  == {k \in (s0 + 8)..r : IsDigit(t[k])}
  IN  IF s0 > Len(t) \/ ~IsDigit(t[s0]) \/ K = {} THEN NoMatch
      ELSE [end |-> Max(K), val |-> SubSeq(t, i, Max(K))]

\* find_phones, lines 106-107
find_phones(text) ==
  FindAllFrom([i \in 1..Len(text) |-> PhoneAt(text, i)], Len(text), 1)

-----------------------------------------------------------------------------
(* Intent scorer, lines 110-124 *)

\* str comparison a < b: lexicographic by code point
StrLess(a, b) ==
  \E i \in 1..(Len(a) + 1) :
    /\ \A j \in 1..(i - 1) : j <= Len(b) /\ a[j] = b[j]
    /\ \/ i = Len(a) + 1 /\ i <= Len(b)
       \/ i <= Len(a) /\ i <= Len(b) /\ CodePoint[a[i]] < CodePoint[b[i]]

\* sorted(S) for a set S of str
RECURSIVE Sorted(_)
Sorted(S) ==
  IF S = {} THEN <<>>
  ELSE LET m == CHOOSE x \in S : \A y \in S : x = y \/ StrLess(x, y)
       IN  <<m>> \o Sorted(S \ {m})

\* lines 116-119: the list entries found in the text, in list order
Hits(text, terms) ==
  LET Found(term) == Contains(text, Lower(term))
  IN  SelectSeq(terms, Found)

\* a scorer that counts list entries instead of distinct terms
HitScorePerEntry(weight, hits) == weight * Len(hits)

\* line 121: weight * len(set(hits))
HitScore(weight, hits) == weight * Cardinality(Range(hits))

\* line 122: sorted(set(hits))
HitEvidence(hits) == Sorted(Range(hits))

\* score_intents
score_intents(g, subject, body) ==
  LET text == Lower(subject \o <<"\n">> \o body)
      K    == DOMAIN g.INTENT_RULES
      hits == [k \in K |-> Hits(text, g.INTENT_RULES[k].terms)]
  IN  [scores   |-> [k \in K |->
                       IF hits[k] # <<>>
                       THEN HitScore(g.INTENT_RULES[k].weight, hits[k]) ELSE 0],
       evidence |-> [k \in K |->
                       IF hits[k] # <<>> THEN HitEvidence(hits[k]) ELSE <<>>]]

-----------------------------------------------------------------------------
(* Feature extractor, lines 127-144 *)

\* a feature extractor without the default for an empty domain
SenderIsFreeStrict(g, domain) == domain \in g.FREE_DOMAINS

\* line 129: domain in FREE_DOMAINS if domain else True
SenderIsFree(g, domain) ==
  IF domain # <<>> THEN domain \in g.FREE_DOMAINS ELSE TRUE

\* a feature extractor that reads the sender line as well
FeatureTextWithSender(e) == e.sender \o <<"\n">> \o e.subject \o <<"\n">> \o e.body

\* line 131: the text the features are read from
FeatureText(e) == e.subject \o <<"\n">> \o e.body

\* extract_features
extract_features(g, e) ==
  LET m      == extract_email_domain(e.sender)
      domain == IF m.ok /\ m.group # <<>> THEN m.group ELSE <<>>
      text   == FeatureText(e)
  IN  [sender_domain         |-> domain,
       sender_is_free_domain |-> SenderIsFree(g, domain),
       mentions_roles        |-> contains_any(text, g.ROLE_TERMS),
       role_hits             |-> count_any(text, g.ROLE_TERMS),
       mentions_urgency      |-> contains_any(text, g.URGENCY_TERMS),
       urgency_hits          |-> count_any(text, g.URGENCY_TERMS),
       money_mentions        |-> find_money(text),
       urls                  |-> find_urls(text),
       phones                |-> find_phones(text),
       length                |-> Len(text)]

-----------------------------------------------------------------------------
(* Decision engine, lines 147-197.  Risk figures are in tenths. *)

\* line 153
strong_security_terms ==
  <<
    <<"b","r","e","a","c","h">>,
    <<"h","a","c","k">>,
    <<"p","h","i","s","h","i","n","g">>,
    <<"w","i","r","e"," ","t","r","a","n","s","f","e","r">>,
    <<"b","a","n","k"," ","d","e","t","a","i","l","s">>,
    <<"d","a","t","o","s"," ","b","a","n","c","a","r","i","o","s">>,
    <<"t","r","a","n","s","f","e","r","e","n","c","i","a">>
  >>

\* lines 154-155
HasStrongSecurity(e) ==
  LET text_all == Lower(e.subject \o <<"\n">> \o e.body)
  IN  \E k \in 1..Len(strong_security_terms) :
        Contains(text_all, strong_security_terms[k])

\* a suppression that does not ask for a SUPPORT match
SuppressWithoutSupport(scores, e) ==
  IF scores.SECURITY > 0 /\ ~HasStrongSecurity(e)
  THEN [scores EXCEPT !.SECURITY = 0]
  ELSE scores

\* lines 151-158: the scores after the security suppression
Suppress(scores, e) ==
  LET support_like  == scores.SUPPORT >= 1
      security_like == scores.SECURITY > 0
  IN  IF support_like /\ security_like /\ ~HasStrongSecurity(e)
      THEN [scores EXCEPT !.SECURITY = 0]
      ELSE scores

\* lines 160-164
StrategicRisk(scores, features) ==
  scores.M_AND_A * 12
  + (IF features.mentions_roles THEN 40 ELSE 0)
  + (IF features.mentions_urgency THEN 20 ELSE 0)
  + (IF features.money_mentions # {} THEN 30 ELSE 0)

\* lines 166-168
OperationalRisk(scores) == scores.SECURITY * 13 + scores.LEGAL * 11

\* a trust penalty whose phone condition does not ask for a SECURITY score
TrustPenaltyPhoneAlone(scores, features) ==
  (IF features.sender_is_free_domain THEN 20 ELSE 0)
  + (IF Cardinality(features.urls) >= 2 THEN 20 ELSE 0)
  + (IF Cardinality(features.phones) >= 1 THEN 20 ELSE 0)

\* lines 170-176
TrustPenalty(scores, features) ==
  (IF features.sender_is_free_domain THEN 20 ELSE 0)
  + (IF Cardinality(features.urls) >= 2 THEN 20 ELSE 0)
  + (IF Cardinality(features.phones) >= 1 /\ scores.SECURITY > 0
     THEN 20 ELSE 0)

\* a rule list with the escalation rule (b) ahead of the BLOCK rule (a)
SelectActionEscalateFirst(scores, features, trust_penalty, total_risk) ==
  IF scores.M_AND_A >= 5 \/ scores.LEGAL >= 8 THEN "ESCALATE_HUMAN"
  ELSE IF scores.SECURITY >= 10 /\ trust_penalty >= 30 THEN "BLOCK"
  ELSE IF /\ features.mentions_roles
          /\ features.mentions_urgency
          /\ features.money_mentions # {}
       THEN "ESCALATE_HUMAN"
  ELSE IF total_risk >= 100 THEN "ESCALATE_HUMAN"
  ELSE "AUTO_REPLY"

\* a rule list whose BLOCK rule asks for a trust penalty of 2 only
SelectActionLowTrustBar(scores, features, trust_penalty, total_risk) ==
  IF scores.SECURITY >= 10 /\ trust_penalty >= 20 THEN "BLOCK"
  ELSE IF scores.M_AND_A >= 5 \/ scores.LEGAL >= 8 THEN "ESCALATE_HUMAN"
  ELSE IF /\ features.mentions_roles
          /\ features.mentions_urgency
          /\ features.money_mentions # {}
       THEN "ESCALATE_HUMAN"
  ELSE IF total_risk >= 100 THEN "ESCALATE_HUMAN"
  ELSE "AUTO_REPLY"

\* lines 180-189
SelectAction(scores, features, trust_penalty, total_risk) ==
  IF scores.SECURITY >= 10 /\ trust_penalty >= 30 THEN "BLOCK"
  ELSE IF scores.M_AND_A >= 5 \/ scores.LEGAL >= 8 THEN "ESCALATE_HUMAN"
  ELSE IF /\ features.mentions_roles
          /\ features.mentions_urgency
          /\ features.money_mentions # {}
       THEN "ESCALATE_HUMAN"
  ELSE IF total_risk >= 100 THEN "ESCALATE_HUMAN"
  ELSE "AUTO_REPLY"

\* the local variables of decide_action when it returns: scored is the dict
\* score_intents returned, scores the dict after line 158
Frame(si, features, scores, sr, opr, tp) ==
  [scored           |-> si.scores,
   scores           |-> scores,
   intent_evidence  |-> si.evidence,
   features         |-> features,
   strategic_risk   |-> sr,
   operational_risk |-> opr,
   trust_penalty    |-> tp,
   total_risk       |-> sr + opr + tp,
   action           |-> SelectAction(scores, features, tp, sr + opr + tp)]

\* lines 160-189, from the scores left by the suppression
Assess(si, features, scores) ==
  Frame(si, features, scores,
        StrategicRisk(scores, features),
        OperationalRisk(scores),
        TrustPenalty(scores, features))

\* lines 151-189, from what lines 148-149 computed
AssessScored(si, features, e) == Assess(si, features, Suppress(si.scores, e))

\* lines 148-189
decide_action_locals(g, e) ==
  AssessScored(score_intents(g, e.subject, e.body), extract_features(g, e), e)

\* lines 191-197: the dict decide_action returns; round(total_risk, 2) of
\* a whole number of tenths is that number
ReturnDict(f) ==
  [action          |-> f.action,
   risk            |-> f.total_risk,
   intent_scores   |-> f.scores,
   intent_evidence |-> f.intent_evidence,
   features        |-> f.features]

\* decide_action, lines 147-197, run with the module namespace g
decide_action(g, e) == ReturnDict(decide_action_locals(g, e))

\* lines 151-158 changed the SECURITY score
SuppressionWrites(scored, e) == Suppress(scored, e).SECURITY # scored.SECURITY

\* a decide_action whose suppression writes the zero into the shared rule
\* table instead of the call's own scores
GlobalsAfterLeakyCall(g, e) ==
  IF SuppressionWrites(score_intents(g, e.subject, e.body).scores, e)
  THEN [g EXCEPT !.INTENT_RULES.SECURITY.weight = 0]
  ELSE g

\* decide_action assigns to no module-level name and mutates none of the
\* module-level objects: the namespace after a call is the one before it
GlobalsAfterCall(g, e) == g

-----------------------------------------------------------------------------
(* The emails decide_action is called on *)

\* sender strings: a company address, a display name with an upper-case
\* free-webmail address, no address at all
Senders ==
  { <<"c","e","o","@","b","i","g","c","o","r","p",".","c","o","m">>,
     <<"B","o","b"," ","<","b","o","b","@","G","M","A","I","L",".","c","o","m",">">>,
     <<"n","o","b","o","d","y">> }

ComposedSubject == <<"h","i">>

\* body fragments; a body is a selection of them, in this order, joined by
\* single spaces
Fragments ==
  << <<"a","c","q","u","i","r","e">>,
     <<"N","D","A">>,
     <<"l","a","w","s","u","i","t">>,
     <<"p","a","s","s","w","o","r","d"," ","r","e","s","e","t">>,
     <<"p","h","i","s","h","i","n","g">>,
     <<"i","n","t","r","u","s","i","ó","n">>,
     <<"i","s","s","u","e">>,
     <<"d","i","r","e","c","t","o","r">>,
     <<"U","R","G","E","N","T">>,
     <<"$","5","0">>,
     <<"w","w","w",".","a",".","i","o"," ","h","t","t","p",":","/","/","b",".","i","o">>,
     <<"+","3","4"," ","6","0","0"," ","1","2","3"," ","4","5","6">> >>

\* the most fragments in one body
MaxParts == 3

\* the scenarios of the specification's testable properties
ScenarioEmails ==
  {[sender  |-> <<"c","e","o","@","b","i","g","c","o","r","p",".","c","o","m">>,
    subject |-> <<"U","r","g","e","n","t",":"," ","A","c","q","u","i","s","i","t","i","o","n"," ","p","r","o","p","o","s","a","l">>,
    body    |-> <<"W","e"," ","w","a","n","t"," ","t","o"," ","a","c","q","u","i","r","e"," ","y","o","u","r"," ","c","o","m","p","a","n","y"," ","f","o","r"," ","$","5","0"," ","m","i","l","l","i","o","n"," ","i","m","m","e","d","i","a","t","e","l","y">>],
   [sender  |-> <<"r","a","n","d","o","m","@","g","m","a","i","l",".","c","o","m">>,
    subject |-> <<"h","i">>,
    body    |-> <<"j","u","s","t"," ","c","h","e","c","k","i","n","g"," ","i","n">>],
   [sender  |-> <<"u","s","e","r","@","e","x","a","m","p","l","e",".","o","r","g">>,
    subject |-> <<"p","a","s","s","w","o","r","d"," ","r","e","s","e","t"," ","i","s","s","u","e">>,
    body    |-> <<"I"," ","h","a","v","e"," ","a"," ","p","r","o","b","l","e","m",","," ","m","y"," ","p","a","s","s","w","o","r","d"," ","r","e","s","e","t"," ","d","o","e","s","n","'","t"," ","w","o","r","k">>],
   [sender  |-> <<"i","t","@","e","x","a","m","p","l","e",".","o","r","g">>,
    subject |-> <<"H","e","l","p">>,
    body    |-> <<"w","i","r","e"," ","t","r","a","n","s","f","e","r">>]}

\* emails that exercise the regular expressions: senders with and without a
\* parseable host, amounts, links and phone-like digit runs
ProbeEmails ==
  {[sender  |-> <<"x","@","y",".","z">>,
    subject |-> <<>>,
    body    |-> <<>>],
   [sender  |-> <<"a","@","@","m","a","i","l",".","Y","a","h","o","o",".","c","o","m",".">>,
    subject |-> <<"r","e">>,
    body    |-> <<"p","a","y"," ","5",".","5","m"," ","o","r"," ","2","0"," ","€"," ","n","o","w">>],
   [sender  |-> <<"A","n","n"," ","<","a","n","n","@","p","r","o","t","o","n",".","m","e",">">>,
    subject |-> <<"1",",","0","0","0",".","5","0","$","x">>,
    body    |-> <<"€"," ","1","2",",","5","."," ","3"," ","M","I","L">>],
   [sender  |-> <<"j","o","e","@","l","i","v","e",".","c","o","m",".","x","-">>,
    subject |-> <<"r","e","f"," ","2","0","2","4","-","0","1","-","1","5">>,
    body    |-> <<"c","o","s","t","s"," ","1","0","0","$"," ","o","k"," ","$","7">>],
   [sender  |-> <<"@","g","m","a","i","l",".","c","o","m">>,
    subject |-> <<"H","T","T","P",":","/","/","A",".","b"," ","h","t","t","p","s",":","/","/">>,
    body    |-> <<"w","w","w","."," ","x"," ","W","W","W",".","x"," ","1","2","€","a"," ","5"," ","b">>],
   [sender  |-> <<"j","o","e","@","a","-","b",".","i","c","l","o","u","d",".","c","o","m">>,
    subject |-> <<"c","a","l","l"," ","(","5","5","5",")"," ","1","2","3","-","4","5","6","7",".">>,
    body    |-> <<"d","i","r","e","c","t","o","r","\n","V","P"," ","A","S","A","P"," ","1","2","3","4","5","6","7"," ","8","9">>],
   [sender  |-> <<"p","@","o","u","t","l","o","o","k",".","c","o","m">>,
    subject |-> <<"w","i","r","e">>,
    body    |-> <<"t","r","a","n","s","f","e","r"," ","b","u","g"," ","1","0"," ","m","i","l","l","o","n","e","s">>],
   [sender  |-> <<"q","@","h","o","t","m","a","i","l",".","c","0","m">>,
    subject |-> <<"h","a","c","k","e","o"," ","a","y","u","d","a">>,
    body    |-> <<"+","1"," ","5","5","5"," ","1","2","3"," ","4","5","6","7"," ","$"," ","9",",","9","9">>]}

RECURSIVE JoinFrom(_, _)
JoinFrom(P, i) ==
  IF i > Len(Fragments) THEN <<>>
  ELSE IF i \notin P THEN JoinFrom(P, i + 1)
  ELSE LET rest == JoinFrom(P, i + 1)
       IN  IF rest = <<>> THEN Fragments[i] ELSE Fragments[i] \o <<" ">> \o rest

Selections ==
  {P \in SUBSET (1..Len(Fragments)) : Cardinality(P) <= MaxParts}

ComposedEmails ==
  {[sender |-> s, subject |-> ComposedSubject, body |-> JoinFrom(P, 1)] :
     s \in Senders, P \in Selections}

-----------------------------------------------------------------------------
(* The program: the module is imported, then decide_action is called on one
   email after another *)

None == [none |-> TRUE]

Init ==
  /\ globals = ModuleGlobals
  /\ email = None
  /\ frame = None
  /\ decision = None
  /\ pc = "idle"

\* decision = decide_action(email), lines 147-197 (called at line 218)
Call(e) ==
  /\ pc = "idle"
  /\ email' = e
  /\ frame' = decide_action_locals(globals, e)
  /\ decision' = ReturnDict(frame')
  /\ globals' = GlobalsAfterCall(globals, e)
  /\ pc' = "returned"

CallComposed == \E e \in ComposedEmails : Call(e)

CallScenario == \E e \in ScenarioEmails : Call(e)

CallProbe == \E e \in ProbeEmails : Call(e)

\* the caller is done with the Decision: the email, the locals and the
\* returned dict are garbage, the module namespace is all that lives on
Discard ==
  /\ pc = "returned"
  /\ email' = None
  /\ frame' = None
  /\ decision' = None
  /\ pc' = "idle"
  /\ UNCHANGED globals

Next == CallComposed \/ CallScenario \/ CallProbe \/ Discard

Spec == Init /\ [][Next]_vars

-----------------------------------------------------------------------------
(* Properties *)

Returned == pc = "returned"

\* the lower-cased subject+body of the email in hand
TextAll == Lower(email.subject \o <<"\n">> \o email.body)

\* the three conditions of the suppression rule, read off the scores that
\* score_intents returned and the text
SuppressionFired ==
  /\ frame.scored.SUPPORT >= 1
  /\ frame.scored.SECURITY > 0
  /\ \A k \in 1..Len(strong_security_terms) :
       ~Contains(TextAll, strong_security_terms[k])

\* the SECURITY score after suppression
SecurityAfter == IF SuppressionFired THEN 0 ELSE frame.scored.SECURITY

RuleA == SecurityAfter >= 10 /\ frame.trust_penalty >= 30

RuleB == decision.intent_scores.M_AND_A >= 5 \/ decision.intent_scores.LEGAL >= 8

RuleC ==
  /\ decision.features.mentions_roles
  /\ decision.features.mentions_urgency
  /\ decision.features.money_mentions # {}

RuleD == frame.total_risk >= 100

\* C1: the action is the one of the first matching rule in the order
\* (a) BLOCK, (b) (c) (d) ESCALATE_HUMAN, else AUTO_REPLY, with the SECURITY
\* score after suppression; an email that satisfies (a) and (b) is BLOCKed.
C1_FirstMatchingRule ==
  Returned =>
    decision.action =
      (IF RuleA THEN "BLOCK"
       ELSE IF RuleB THEN "ESCALATE_HUMAN"
       ELSE IF RuleC THEN "ESCALATE_HUMAN"
       ELSE IF RuleD THEN "ESCALATE_HUMAN"
       ELSE "AUTO_REPLY")

\* an email that satisfies rules (a) and (b) at once has been decided
C1_BlockAndEscalateBothMatch ==
  Returned /\ RuleA /\ RuleB /\ decision.action = "BLOCK"

ClaimedStrongTerms ==
  << <<"b","r","e","a","c","h">>,
     <<"h","a","c","k">>,
     <<"p","h","i","s","h","i","n","g">>,
     <<"w","i","r","e"," ","t","r","a","n","s","f","e","r">>,
     <<"b","a","n","k"," ","d","e","t","a","i","l","s">>,
     <<"i","n","t","r","u","s","i","ó","n">>,
     <<"h","a","c","k","e","o">>,
     <<"s","u","p","l","a","n","t","a","c","i","ó","n">>,
     <<"t","r","a","n","s","f","e","r","e","n","c","i","a">>,
     <<"d","a","t","o","s"," ","b","a","n","c","a","r","i","o","s">> >>

\* the distinct terms of a list that occur in the lower-cased text
TermsPresent(terms) == {t \in Range(terms) : Contains(TextAll, t)}

\* C3: a SUPPORT term together with a strong security term (breach, hack,
\* phishing, wire transfer, bank details, intrusión, hackeo, suplantación,
\* transferencia, datos bancarios) leaves the SECURITY score unsuppressed:
\* 5 times the number of distinct matched SECURITY terms.
C3_StrongTermKeepsScore ==
  (/\ Returned
   /\ TermsPresent(SUPPORT_TERMS) # {}
   /\ TermsPresent(ClaimedStrongTerms) # {})
  => decision.intent_scores.SECURITY
       = 5 * Cardinality(TermsPresent(SECURITY_TERMS))

ScenarioAcquisition ==
  [sender  |-> <<"c","e","o","@","b","i","g","c","o","r","p",".","c","o","m">>,
   subject |-> <<"U","r","g","e","n","t",":"," ","A","c","q","u","i","s","i","t","i","o","n"," ","p","r","o","p","o","s","a","l">>,
   body    |-> <<"W","e"," ","w","a","n","t"," ","t","o"," ","a","c","q","u","i","r","e"," ","y","o","u","r"," ","c","o","m","p","a","n","y"," ","f","o","r"," ","$","5","0"," ","m","i","l","l","i","o","n"," ","i","m","m","e","d","i","a","t","e","l","y">>]

\* C4 as stated: the acquisition scenario gives mentions_roles, 
\* mentions_urgency, money_mentions non-empty, M_AND_A >= 5, ESCALATE_HUMAN.
C4_ScenarioAsStated ==
  (Returned /\ email = ScenarioAcquisition) =>
    /\ decision.features.mentions_roles = TRUE
    /\ decision.features.mentions_urgency = TRUE
    /\ decision.features.money_mentions # {}
    /\ decision.intent_scores.M_AND_A >= 5
    /\ decision.action = "ESCALATE_HUMAN"

\* C4 amended: in the acquisition scenario no role term occurs in the
\* subject or body (the role word is in the sender, which is not scanned), so
\* mentions_roles is false; mentions_urgency is true, money_mentions is
\* non-empty, M_AND_A >= 5 and the action is ESCALATE_HUMAN.
C4_ScenarioAmended ==
  (Returned /\ email = ScenarioAcquisition) =>
    /\ decision.features.mentions_roles = FALSE
    /\ decision.features.mentions_urgency = TRUE
    /\ decision.features.money_mentions # {}
    /\ decision.intent_scores.M_AND_A >= 5
    /\ decision.action = "ESCALATE_HUMAN"

\* decide_action has returned on the acquisition scenario
C4_ScenarioDecided ==
  Returned /\ email = ScenarioAcquisition /\ decision.action = "ESCALATE_HUMAN"

\* C5: role_hits and urgency_hits are the numbers of distinct role and
\* urgency terms that occur in the lower-cased text.
C5_HitsCountDistinctTerms ==
  Returned =>
    /\ decision.features.role_hits = Cardinality(TermsPresent(ROLE_TERMS))
    /\ decision.features.urgency_hits = Cardinality(TermsPresent(URGENCY_TERMS))

\* a sequence of str is strictly ascending (so duplicate-free)
Ascending(s) == \A i \in 1..(Len(s) - 1) : StrLess(s[i], s[i + 1])

\* C6: all five categories are keys of intent_scores and intent_evidence;
\* the evidence is the duplicate-free ascending list of the category's matched
\* terms; the score is weight times the number of evidence terms, except
\* SECURITY when suppression fired: 0 with the evidence kept.
C6_ScoresAndEvidence ==
  Returned =>
    /\ DOMAIN decision.intent_scores = Range(Intents)
    /\ DOMAIN decision.intent_evidence = Range(Intents)
    /\ \A k \in Range(Intents) :
         /\ Ascending(decision.intent_evidence[k])
         /\ Range(decision.intent_evidence[k])
              = TermsPresent(INTENT_RULES[k].terms)
         /\ decision.intent_scores[k] =
              IF k = "SECURITY" /\ SuppressionFired THEN 0
              ELSE INTENT_RULES[k].weight * Len(decision.intent_evidence[k])

\* suppression fired with two SECURITY terms in evidence, next to a LEGAL
\* term that the LEGAL list holds twice
C6_SuppressedEvidenceKept ==
  /\ Returned
  /\ SuppressionFired
  /\ Len(decision.intent_evidence.SECURITY) = 2
  /\ decision.intent_scores.SECURITY = 0
  /\ decision.intent_evidence.LEGAL = << <<"n","d","a">> >>
  /\ decision.intent_scores.LEGAL = 4

TrustFree == decision.features.sender_is_free_domain

TrustUrls == Cardinality(decision.features.urls) >= 2

TrustPhone == Cardinality(decision.features.phones) >= 1 /\ SecurityAfter > 0

\* how many of the three trust conditions hold
TrustConditions ==
  Cardinality({c \in {1, 2, 3} :
                 \/ c = 1 /\ TrustFree
                 \/ c = 2 /\ TrustUrls
                 \/ c = 3 /\ TrustPhone})

\* C7: risk = strategic + operational + trust penalty, unclamped, with
\* strategic = 1.2*M_AND_A + 4 (roles) + 2 (urgency) + 3 (money),
\* operational = 1.3*SECURITY after suppression + 1.1*LEGAL, and trust
\* penalty = 2 per trust condition that holds, each on its own, within 0..6.
\* In tenths.
C7_RiskIsTheSum ==
  Returned =>
    /\ frame.strategic_risk =
         12 * decision.intent_scores.M_AND_A
         + (IF decision.features.mentions_roles THEN 40 ELSE 0)
         + (IF decision.features.mentions_urgency THEN 20 ELSE 0)
         + (IF decision.features.money_mentions # {} THEN 30 ELSE 0)
    /\ frame.operational_risk =
         13 * SecurityAfter + 11 * decision.intent_scores.LEGAL
    /\ frame.trust_penalty = 20 * TrustConditions
    /\ frame.trust_penalty \in 0..60
    /\ decision.risk =
         frame.strategic_risk + frame.operational_risk + frame.trust_penalty

\* all three trust conditions hold at once
C7_AllTrustConditions == Returned /\ TrustConditions = 3

HasAddress(s) ==
  \E a \in 1..Len(s) : \E d \in (a + 2)..(Len(s) - 2) :
    /\ s[a] = "@"
    /\ \A k \in (a + 1)..(d - 1) : s[k] \in HostChars
    /\ s[d] = "."
    /\ s[d + 1] \in AsciiLetters
    /\ s[d + 2] \in AsciiLetters

Actions == {"AUTO_REPLY", "ESCALATE_HUMAN", "BLOCK"}

\* C9: a sender with no address-like substring gives sender_domain = "",
\* sender_is_free_domain = true, a valid Decision and a trust penalty that
\* includes the 2 points of the free-domain condition; a parseable sender is
\* free exactly when its lower-cased domain is in the free-webmail set.
C9_UnparseableSenderUntrusted ==
  Returned =>
    /\ ~HasAddress(email.sender) =>
         /\ decision.features.sender_domain = <<>>
         /\ decision.features.sender_is_free_domain = TRUE
         /\ decision.action \in Actions
         /\ DOMAIN decision.intent_scores = Range(Intents)
         /\ frame.trust_penalty >= 20
         /\ frame.trust_penalty
              = 20 + (IF TrustUrls THEN 20 ELSE 0) + (IF TrustPhone THEN 20 ELSE 0)
    /\ HasAddress(email.sender) =>
         /\ decision.features.sender_domain # <<>>
         /\ decision.features.sender_domain = Lower(decision.features.sender_domain)
         /\ decision.features.sender_is_free_domain
              <=> (decision.features.sender_domain \in FREE_DOMAINS)

\* a sender with an "@" but no parseable host has been decided on
C9_UnparseableWithAt ==
  /\ Returned
  /\ "@" \in Range(email.sender)
  /\ ~HasAddress(email.sender)
  /\ decision.features.sender_is_free_domain

\* C10: AUTO_REPLY implies risk < 10, M_AND_A = 0 and LEGAL <= 4; BLOCK
\* implies risk >= 17 and at least two trust conditions; an email on which
\* suppression fired is never BLOCKed.
C10_ActionRiskConsistent ==
  Returned =>
    /\ decision.action = "AUTO_REPLY" =>
         /\ decision.risk < 100
         /\ decision.intent_scores.M_AND_A = 0
         /\ decision.intent_scores.LEGAL <= 4
    /\ decision.action = "BLOCK" =>
         /\ decision.risk >= 170
         /\ TrustConditions >= 2
    /\ SuppressionFired => decision.action # "BLOCK"

\* a BLOCK at the least risk it can have, with exactly two trust conditions
C10_BlockAtLeastRisk ==
  Returned /\ decision.action = "BLOCK" /\ decision.risk = 170 /\ TrustConditions = 2

====
